---- MODULE Spec2Model ----
(***************************************************************************)
(* Model of src/src/main.rs: the diagnostic battery (network_test /        *)
(* run_command), the capture session (capture_traffic), the traffic        *)
(* generator thread (visit_websites) and the line parser (parse_packet).   *)
(***************************************************************************)
EXTENDS Integers, Sequences, FiniteSets, TLC

\* ---------------------------------------------------------------- bounds
MaxPkts == 2        \* max_packets ranges over 1..MaxPkts
MaxLines == 3       \* lines the capture subprocess writes in one session
MaxClock == 1       \* the wall clock runs over 0..MaxClock seconds
NumSites == 2       \* length of the site catalog (20 in the deployment)
MaxLineLen == 14    \* length of the lines fed to parse_packet on its own
MaxTabs == 1        \* tab characters in such a line

\* ------------------------------------------------------ program constants
NumCommands == 6    \* run_command calls in network_test

\* --------------------------------------------------------------- inputs
ExtResults == {"Err", "OkNonZero", "OkZero"}   \* Command::output() results
TimeoutSecs == 0 .. (MaxClock + 1)             \* MaxClock + 1 is never reached
Chars == {"x", " ", "\t"}

\* lines of capture output: a banner line (3 tokens), a packet line (7 tokens,
\* two blanks before the last one) and a second packet line (6 tokens)
BannerLine == <<"x", " ", "x", "x", " ", "x">>
PacketLine ==
    <<"x", " ", "x", "x", " ", "x", " ", "x", " ", "x", "\t", "x", " ", " ", "x", "x">>
PacketLine2 == <<"x", "x", " ", "x", " ", "x", " ", "x", " ", "x", " ", "x">>
Lines == {BannerLine, PacketLine, PacketLine2}

VARIABLES
    pc,            \* position of the main thread
    max_packets,   \* capture_traffic parameter
    timeout_secs,  \* capture_traffic parameter
    now,           \* wall clock, in seconds
    diagIdx,       \* run_command calls completed
    diagOutcomes,  \* outcome lines printed by run_command
    lastExt,       \* external result of the last run_command
    lastOutcome,   \* outcome printed by the last run_command
    diagErrSeen,   \* some run_command so far could not launch its program
    spawnCount,    \* capture subprocesses created
    spawnFailed,   \* Command::spawn returned Err
    childState,    \* "none", "running", "killed" ("reaped" needs a wait())
    killCount,     \* calls of child.kill()
    killResult,    \* result of child.kill(), discarded by the code
    start_time,    \* Instant::now() taken after the spawn
    packet_count,  \* the read counter
    pipe,          \* next item of the subprocess's stdout, if any
    cur,           \* item returned by the last lines().next()
    readAttempts,  \* calls of lines().next() that returned
    linesRead,     \* lines returned as Ok, in arrival order
    emitted,       \* packet rows printed, in order
    errReported,   \* "Error reading packet" printed
    stopNotice,    \* "Stopping capture" printed
    outcome,       \* count printed in the summary, -1 before
    genPc,         \* site thread: "none", "running", "done"
    genStarts,     \* thread::spawn calls
    genIdx,        \* catalog entries visited
    probes,        \* catalog indices probed, in order
    observations,  \* <<index, observation>> printed by the site thread
    pline,         \* parser input under construction
    parsed,        \* parse_packet has been applied to pline
    presult        \* its result

diagVars == <<diagIdx, diagOutcomes, lastExt, lastOutcome, diagErrSeen>>
childVars == <<spawnCount, spawnFailed, childState, killCount, killResult>>
loopVars == <<start_time, packet_count, cur, readAttempts, linesRead, emitted,
              errReported, stopNotice, outcome>>
genVars == <<genPc, genStarts, genIdx, probes, observations>>
parseVars == <<pline, parsed, presult>>
cfgVars == <<max_packets, timeout_secs>>
vars == <<pc, cfgVars, now, diagVars, childVars, loopVars, pipe, genVars, parseVars>>

\* ------------------------------------------------------------ parse_packet
None == <<>>

IsWhitespace(c) == c \in {" ", "\t"}

RECURSIVE SplitFrom(_, _, _, _)
SplitFrom(s, i, tok, acc) ==
    IF i > Len(s)
    THEN IF tok = <<>> THEN acc ELSE Append(acc, tok)
    ELSE IF IsWhitespace(s[i])
         THEN SplitFrom(s, i + 1, <<>>, IF tok = <<>> THEN acc ELSE Append(acc, tok))
         ELSE SplitFrom(s, i + 1, Append(tok, s[i]), acc)

split_whitespace(s) == SplitFrom(s, 1, <<>>, <<>>)

RECURSIVE join(_, _)
join(parts, sep) ==
    IF parts = <<>> THEN <<>>
    ELSE IF Len(parts) = 1 THEN parts[1]
    ELSE parts[1] \o sep \o join(Tail(parts), sep)

\* variant: the length test is off by one
parse_packet_FiveTokens(packet) ==
    LET parts == split_whitespace(packet) IN
    IF Len(parts) < 5 THEN None
    ELSE <<parts[1], parts[3], parts[5], join(SubSeq(parts, 6, Len(parts)), <<" ">>)>>

parse_packet(packet) ==
    LET parts == split_whitespace(packet) IN
    IF Len(parts) < 6 THEN None
    ELSE <<parts[1], parts[3], parts[5], join(SubSeq(parts, 6, Len(parts)), <<" ">>)>>

\* ------------------------------------------------------------- run_command
CommandOutcome(ext) ==
    IF ext # "Err"
    THEN IF ext = "OkZero" THEN <<"SUCCESS", "stdout">> ELSE <<"ERROR", "stderr">>
    ELSE <<"ERROR", "e">>

\* variant: the result of Command::output() is unwrapped
RunCommand_Unwrap ==
    /\ pc = "network_test"
    /\ diagIdx < NumCommands
    /\ \E ext \in ExtResults :
          /\ lastExt' = ext
          /\ lastOutcome' = IF ext = "Err" THEN lastOutcome ELSE CommandOutcome(ext)
          /\ diagErrSeen' = (diagErrSeen \/ ext = "Err")
          /\ diagOutcomes' = IF ext = "Err" THEN diagOutcomes ELSE diagOutcomes + 1
          /\ diagIdx' = IF ext = "Err" THEN diagIdx ELSE diagIdx + 1
          /\ pc' = IF ext = "Err" THEN "panicked"
                   ELSE IF diagIdx + 1 = NumCommands THEN "spawn" ELSE "network_test"
    /\ UNCHANGED <<cfgVars, now, childVars, loopVars, pipe, genVars, parseVars>>

\* variant: the battery hands over one command early
RunCommand_LeavesEarly ==
    /\ pc = "network_test"
    /\ diagIdx < NumCommands
    /\ \E ext \in ExtResults :
          /\ lastExt' = ext
          /\ lastOutcome' = CommandOutcome(ext)
          /\ diagErrSeen' = (diagErrSeen \/ ext = "Err")
    /\ diagOutcomes' = diagOutcomes + 1
    /\ diagIdx' = diagIdx + 1
    /\ pc' = IF diagIdx + 2 >= NumCommands THEN "spawn" ELSE "network_test"
    /\ UNCHANGED <<cfgVars, now, childVars, loopVars, pipe, genVars, parseVars>>

RunCommand ==
    /\ pc = "network_test"
    /\ diagIdx < NumCommands
    /\ \E ext \in ExtResults :
          /\ lastExt' = ext
          /\ lastOutcome' = CommandOutcome(ext)
          /\ diagErrSeen' = (diagErrSeen \/ ext = "Err")
    /\ diagOutcomes' = diagOutcomes + 1
    /\ diagIdx' = diagIdx + 1
    /\ pc' = IF diagIdx + 1 = NumCommands THEN "spawn" ELSE "network_test"
    /\ UNCHANGED <<cfgVars, now, childVars, loopVars, pipe, genVars, parseVars>>

\* --------------------------------------------------------- capture_traffic
NoItem == [kind |-> "none", line |-> <<>>]
OkItem(l) == [kind |-> "ok", line |-> l]
ErrItem == [kind |-> "err", line |-> <<>>]
EofItem == [kind |-> "eof", line |-> <<>>]

\* variant: strict comparison of the counter
StopPredicate_Strict(count, elapsed) == count > max_packets \/ elapsed >= timeout_secs

\* variant: the counter is left out of the test
StopPredicate_TimeOnly(count, elapsed) == elapsed >= timeout_secs

StopPredicate(count, elapsed) == count >= max_packets \/ elapsed >= timeout_secs

SpawnTcpdump ==
    /\ pc = "spawn"
    /\ \E ok \in BOOLEAN :
          IF ok
          THEN /\ spawnCount' = spawnCount + 1
               /\ childState' = "running"
               /\ start_time' = now
               /\ packet_count' = 0
               /\ pc' = "thread_spawn"
               /\ UNCHANGED spawnFailed
          ELSE /\ spawnFailed' = TRUE
               /\ pc' = "panicked"
               /\ UNCHANGED <<spawnCount, childState, start_time, packet_count>>
    /\ UNCHANGED <<cfgVars, now, diagVars, killCount, killResult, cur, readAttempts,
                   linesRead, emitted, errReported, stopNotice, outcome, pipe,
                   genVars, parseVars>>

\* variant: a loop that tests the stop predicate before its first read
SpawnSiteThread_TestsFirst ==
    /\ pc = "thread_spawn"
    /\ genPc' = "running"
    /\ genStarts' = genStarts + 1
    /\ IF StopPredicate(packet_count, now - start_time)
       THEN stopNotice' = TRUE /\ pc' = "kill"
       ELSE stopNotice' = stopNotice /\ pc' = "read"
    /\ UNCHANGED <<cfgVars, now, diagVars, childVars, start_time, packet_count, cur,
                   readAttempts, linesRead, emitted, errReported, outcome, pipe,
                   genIdx, probes, observations, parseVars>>

SpawnSiteThread ==
    /\ pc = "thread_spawn"
    /\ genPc' = "running"
    /\ genStarts' = genStarts + 1
    /\ pc' = "read"
    /\ UNCHANGED <<cfgVars, now, diagVars, childVars, loopVars, pipe, genIdx, probes,
                   observations, parseVars>>

\* variant: the end of the stream is announced like a stop
ReadLine_EofNotice ==
    /\ pc = "read"
    /\ pipe # NoItem
    /\ cur' = pipe
    /\ pipe' = NoItem
    /\ readAttempts' = readAttempts + 1
    /\ linesRead' = IF pipe.kind = "ok" THEN Append(linesRead, pipe.line) ELSE linesRead
    /\ stopNotice' = (stopNotice \/ pipe.kind = "eof")
    /\ pc' = IF pipe.kind = "eof" THEN "kill" ELSE "match"
    /\ UNCHANGED <<cfgVars, now, diagVars, childVars, start_time, packet_count, emitted,
                   errReported, outcome, genVars, parseVars>>

ReadLine ==
    /\ pc = "read"
    /\ pipe # NoItem
    /\ cur' = pipe
    /\ pipe' = NoItem
    /\ readAttempts' = readAttempts + 1
    /\ linesRead' = IF pipe.kind = "ok" THEN Append(linesRead, pipe.line) ELSE linesRead
    /\ pc' = IF pipe.kind = "eof" THEN "kill" ELSE "match"
    /\ UNCHANGED <<cfgVars, now, diagVars, childVars, start_time, packet_count, emitted,
                   errReported, stopNotice, outcome, genVars, parseVars>>

\* variant: the failing read is counted too
LoopBody_CountsError ==
    /\ pc = "match"
    /\ IF cur.kind = "ok"
       THEN /\ emitted' = IF parse_packet(cur.line) # None
                          THEN Append(emitted, parse_packet(cur.line))
                          ELSE emitted
            /\ packet_count' = packet_count + 1
            /\ IF StopPredicate(packet_count + 1, now - start_time)
               THEN stopNotice' = TRUE /\ pc' = "kill"
               ELSE stopNotice' = stopNotice /\ pc' = "read"
            /\ UNCHANGED errReported
       ELSE /\ errReported' = TRUE
            /\ packet_count' = packet_count + 1
            /\ pc' = "kill"
            /\ UNCHANGED <<emitted, stopNotice>>
    /\ UNCHANGED <<cfgVars, now, diagVars, childVars, start_time, cur, readAttempts,
                   linesRead, outcome, pipe, genVars, parseVars>>

\* variant: the counter is incremented inside the `if let Some`
LoopBody_CountsParsed ==
    /\ pc = "match"
    /\ IF cur.kind = "ok"
       THEN LET n == IF parse_packet(cur.line) # None
                     THEN packet_count + 1 ELSE packet_count IN
            /\ emitted' = IF parse_packet(cur.line) # None
                          THEN Append(emitted, parse_packet(cur.line))
                          ELSE emitted
            /\ packet_count' = n
            /\ IF StopPredicate(n, now - start_time)
               THEN stopNotice' = TRUE /\ pc' = "kill"
               ELSE stopNotice' = stopNotice /\ pc' = "read"
            /\ UNCHANGED errReported
       ELSE /\ errReported' = TRUE
            /\ pc' = "kill"
            /\ UNCHANGED <<emitted, packet_count, stopNotice>>
    /\ UNCHANGED <<cfgVars, now, diagVars, childVars, start_time, cur, readAttempts,
                   linesRead, outcome, pipe, genVars, parseVars>>

\* variant: a row is printed for every line, parsed or not
LoopBody_EmitsAll ==
    /\ pc = "match"
    /\ IF cur.kind = "ok"
       THEN /\ emitted' = Append(emitted, parse_packet(cur.line))
            /\ packet_count' = packet_count + 1
            /\ IF StopPredicate(packet_count + 1, now - start_time)
               THEN stopNotice' = TRUE /\ pc' = "kill"
               ELSE stopNotice' = stopNotice /\ pc' = "read"
            /\ UNCHANGED errReported
       ELSE /\ errReported' = TRUE
            /\ pc' = "kill"
            /\ UNCHANGED <<emitted, packet_count, stopNotice>>
    /\ UNCHANGED <<cfgVars, now, diagVars, childVars, start_time, cur, readAttempts,
                   linesRead, outcome, pipe, genVars, parseVars>>

LoopBody ==
    /\ pc = "match"
    /\ IF cur.kind = "ok"
       THEN /\ emitted' = IF parse_packet(cur.line) # None
                          THEN Append(emitted, parse_packet(cur.line))
                          ELSE emitted
            /\ packet_count' = packet_count + 1
            /\ IF StopPredicate(packet_count + 1, now - start_time)
               THEN stopNotice' = TRUE /\ pc' = "kill"
               ELSE stopNotice' = stopNotice /\ pc' = "read"
            /\ UNCHANGED errReported
       ELSE /\ errReported' = TRUE
            /\ pc' = "kill"
            /\ UNCHANGED <<emitted, packet_count, stopNotice>>
    /\ UNCHANGED <<cfgVars, now, diagVars, childVars, start_time, cur, readAttempts,
                   linesRead, outcome, pipe, genVars, parseVars>>

\* variant: the Err arm leaves the function before the teardown
KillChild_SkipAfterError ==
    /\ pc = "kill"
    /\ killCount' = IF errReported THEN killCount ELSE killCount + 1
    /\ \E r \in {"Ok", "Err"} : killResult' = r
    /\ childState' = "killed"
    /\ pc' = "join"
    /\ UNCHANGED <<cfgVars, now, diagVars, spawnCount, spawnFailed, loopVars, pipe,
                   genVars, parseVars>>

\* variant: the result of child.kill() is unwrapped
KillChild_Unwrap ==
    /\ pc = "kill"
    /\ killCount' = killCount + 1
    /\ \E r \in {"Ok", "Err"} :
          /\ killResult' = r
          /\ pc' = IF r = "Err" THEN "panicked" ELSE "join"
    /\ childState' = "killed"
    /\ UNCHANGED <<cfgVars, now, diagVars, spawnCount, spawnFailed, loopVars, pipe,
                   genVars, parseVars>>

KillChild ==
    /\ pc = "kill"
    /\ killCount' = killCount + 1
    /\ \E r \in {"Ok", "Err"} : killResult' = r
    /\ childState' = "killed"
    /\ pc' = "join"
    /\ UNCHANGED <<cfgVars, now, diagVars, spawnCount, spawnFailed, loopVars, pipe,
                   genVars, parseVars>>

\* variant: the thread handle is dropped instead of joined
JoinSiteThread_Detached ==
    /\ pc = "join"
    /\ pc' = "summary"
    /\ UNCHANGED <<cfgVars, now, diagVars, childVars, loopVars, pipe, genVars, parseVars>>

JoinSiteThread ==
    /\ pc = "join"
    /\ genPc = "done"
    /\ pc' = "summary"
    /\ UNCHANGED <<cfgVars, now, diagVars, childVars, loopVars, pipe, genVars, parseVars>>

PrintSummary ==
    /\ pc = "summary"
    /\ outcome' = packet_count
    /\ pc' = "done"
    /\ UNCHANGED <<cfgVars, now, diagVars, childVars, start_time, packet_count, cur,
                   readAttempts, linesRead, emitted, errReported, stopNotice, pipe,
                   genVars, parseVars>>

\* ---------------------------------------------------------- visit_websites
VisitObservation(ext) ==
    IF ext # "Err"
    THEN IF ext = "OkZero" THEN "SUCCESS Visited" ELSE "ERROR Failed to visit"
    ELSE "ERROR e"

\* variant: a probe that cannot be launched ends the thread
VisitSite_StopsOnError ==
    /\ genPc = "running"
    /\ genIdx < NumSites
    /\ \E ext \in ExtResults :
          /\ observations' = Append(observations, <<genIdx + 1, VisitObservation(ext)>>)
          /\ genPc' = IF ext = "Err" THEN "done" ELSE genPc
    /\ probes' = Append(probes, genIdx + 1)
    /\ genIdx' = genIdx + 1
    /\ UNCHANGED <<pc, cfgVars, now, diagVars, childVars, loopVars, pipe,
                   genStarts, parseVars>>

\* variant: the thread holds its probes back until the capture loop is over
VisitSite_WaitsForCapture ==
    /\ genPc = "running"
    /\ genIdx < NumSites
    /\ pc \notin {"read", "match"}
    /\ \E ext \in ExtResults :
          observations' = Append(observations, <<genIdx + 1, VisitObservation(ext)>>)
    /\ probes' = Append(probes, genIdx + 1)
    /\ genIdx' = genIdx + 1
    /\ genPc' = genPc
    /\ UNCHANGED <<pc, cfgVars, now, diagVars, childVars, loopVars, pipe,
                   genStarts, parseVars>>

\* variant: the thread counts its probes in the session's counter
VisitSite_SharesCounter ==
    /\ genPc = "running"
    /\ genIdx < NumSites
    /\ \E ext \in ExtResults :
          observations' = Append(observations, <<genIdx + 1, VisitObservation(ext)>>)
    /\ probes' = Append(probes, genIdx + 1)
    /\ genIdx' = genIdx + 1
    /\ genPc' = genPc
    /\ packet_count' = packet_count + 1
    /\ UNCHANGED <<pc, cfgVars, now, diagVars, childVars, start_time, cur, readAttempts,
                   linesRead, emitted, errReported, stopNotice, outcome, pipe,
                   genStarts, parseVars>>

VisitSite ==
    /\ genPc = "running"
    /\ genIdx < NumSites
    /\ \E ext \in ExtResults :
          observations' = Append(observations, <<genIdx + 1, VisitObservation(ext)>>)
    /\ probes' = Append(probes, genIdx + 1)
    /\ genIdx' = genIdx + 1
    /\ genPc' = genPc
    /\ UNCHANGED <<pc, cfgVars, now, diagVars, childVars, loopVars, pipe,
                   genStarts, parseVars>>

\* variant: the thread gives up its catalog once the capture loop is over
VisitDone_Cancelled ==
    /\ genPc = "running"
    /\ genIdx = NumSites \/ pc = "join"
    /\ genPc' = "done"
    /\ UNCHANGED <<pc, cfgVars, now, diagVars, childVars, loopVars, pipe, genStarts,
                   genIdx, probes, observations, parseVars>>

VisitDone ==
    /\ genPc = "running"
    /\ genIdx = NumSites
    /\ genPc' = "done"
    /\ UNCHANGED <<pc, cfgVars, now, diagVars, childVars, loopVars, pipe, genStarts,
                   genIdx, probes, observations, parseVars>>

\* ------------------------------------------------------------- environment
\* the capture subprocess writes a line, fails its stream or closes it
Tcpdump ==
    /\ childState = "running"
    /\ pc \in {"thread_spawn", "read", "match"}
    /\ pipe = NoItem
    /\ cur.kind \notin {"err", "eof"}
    /\ \E item \in {OkItem(l) : l \in Lines} \cup {ErrItem, EofItem} :
          /\ item.kind = "ok" => Len(linesRead) < MaxLines
          /\ pipe' = item
    /\ UNCHANGED <<pc, cfgVars, now, diagVars, childVars, loopVars, genVars, parseVars>>

Tick ==
    /\ now < MaxClock
    /\ now' = now + 1
    /\ UNCHANGED <<pc, cfgVars, diagVars, childVars, loopVars, pipe, genVars, parseVars>>

\* ------------------------------------------- parse_packet applied on its own
TabCount(s) == Cardinality({i \in 1 .. Len(s) : s[i] = "\t"})

TypeChar ==
    /\ ~parsed
    /\ Len(pline) < MaxLineLen
    /\ \E c \in Chars :
          /\ c = "\t" => TabCount(pline) < MaxTabs
          /\ pline' = Append(pline, c)
    /\ UNCHANGED <<pc, cfgVars, now, diagVars, childVars, loopVars, pipe, genVars,
                   parsed, presult>>

ParseLine ==
    /\ ~parsed
    /\ parsed' = TRUE
    /\ presult' = parse_packet(pline)
    /\ UNCHANGED <<pc, cfgVars, now, diagVars, childVars, loopVars, pipe, genVars, pline>>

\* ---------------------------------------------------------- specification
Init ==
    /\ pc = "network_test"
    /\ max_packets \in 1 .. MaxPkts
    /\ timeout_secs \in TimeoutSecs
    /\ now = 0
    /\ diagIdx = 0
    /\ diagOutcomes = 0
    /\ lastExt = "OkZero"
    /\ lastOutcome = <<"SUCCESS", "stdout">>
    /\ diagErrSeen = FALSE
    /\ spawnCount = 0
    /\ spawnFailed = FALSE
    /\ childState = "none"
    /\ killCount = 0
    /\ killResult = "Ok"
    /\ start_time = 0
    /\ packet_count = 0
    /\ pipe = NoItem
    /\ cur = NoItem
    /\ readAttempts = 0
    /\ linesRead = <<>>
    /\ emitted = <<>>
    /\ errReported = FALSE
    /\ stopNotice = FALSE
    /\ outcome = -1
    /\ genPc = "none"
    /\ genStarts = 0
    /\ genIdx = 0
    /\ probes = <<>>
    /\ observations = <<>>
    /\ pline = <<>>
    /\ parsed = FALSE
    /\ presult = None

Next ==
    \/ RunCommand
    \/ SpawnTcpdump
    \/ SpawnSiteThread
    \/ ReadLine
    \/ LoopBody
    \/ KillChild
    \/ JoinSiteThread
    \/ PrintSummary
    \/ VisitSite
    \/ VisitDone
    \/ Tcpdump
    \/ Tick

Spec == Init /\ [][Next]_vars

\* the threads of the program are scheduled and time passes; the capture
\* subprocess owes nothing
MainStep ==
    \/ RunCommand
    \/ SpawnTcpdump
    \/ SpawnSiteThread
    \/ ReadLine
    \/ LoopBody
    \/ KillChild
    \/ JoinSiteThread
    \/ PrintSummary

GenStep == VisitSite \/ VisitDone

FairSpec == Spec /\ WF_vars(MainStep) /\ WF_vars(GenStep) /\ WF_vars(Tick)

ParseInit == Init /\ max_packets = 1 /\ timeout_secs = 0

ParseNext == TypeChar \/ ParseLine

ParseSpec == ParseInit /\ [][ParseNext]_vars

\* ================================================================ claims
Exited == {"kill", "join", "summary", "done"}     \* the capture loop is over
Ended == {"done", "panicked"}                     \* capture_traffic is over

\* C1: the capture subprocess is spawned at most once, the termination signal
\* is sent at most once and only to a spawned subprocess, and on every exit
\* path of the session a spawned subprocess has been sent it exactly once.
C1_SpawnOnceKillOnce ==
    /\ spawnCount <= 1
    /\ killCount <= 1
    /\ killCount = 1 => spawnCount = 1
    /\ (pc \in Ended /\ spawnCount = 1) => killCount = 1
    /\ pc \in {"join", "summary"} => killCount = 1

C1_Witness ==
    /\ pc = "done" /\ spawnCount = 1 /\ killCount = 1
    /\ errReported /\ killResult = "Ok"

\* C2: the summary is never printed while the site thread is still running.
C2_OutcomeAfterJoin ==
    /\ outcome # -1 => genPc = "done"
    /\ pc \in {"summary", "done"} => genPc = "done"

C2_Witness ==
    /\ outcome # -1 /\ genPc = "done" /\ genStarts = 1
    /\ Len(observations) = NumSites /\ stopNotice

\* C3: once the elapsed time has reached a finite timeout_secs (of a second
\* or more) the capture loop ends, whether or not the subprocess writes
\* another line.
C3_TimeoutEndsLoop ==
    (pc \in {"read", "match"} /\ timeout_secs >= 1 /\ now - start_time >= timeout_secs)
        ~> (pc \notin {"read", "match"})

\* C4: while the timeout is not reached and no read fails, the loop goes on
\* below max_packets lines and stops at exactly max_packets read attempts,
\* with the count max_packets, whether or not the lines parse.
C4_StopsAtMaxPackets ==
    (spawnCount = 1 /\ ~errReported /\ cur.kind \notin {"err", "eof"}
        /\ now - start_time < timeout_secs) =>
        /\ pc = "read" => packet_count < max_packets
        /\ pc \in Exited =>
              /\ readAttempts = max_packets
              /\ packet_count = max_packets
              /\ Len(linesRead) = max_packets
        /\ outcome # -1 => outcome = max_packets

C4_Witness ==
    /\ pc = "done" /\ outcome = max_packets /\ max_packets = MaxPkts
    /\ readAttempts = MaxPkts /\ timeout_secs > MaxClock
    /\ ~errReported /\ cur.kind = "ok"
    /\ Len(emitted) < Len(linesRead)

\* C5: a failed spawn of the capture subprocess is a value of the session,
\* which ends without a read and without the site thread, and the process is
\* not aborted.
C5_SpawnFailureIsValue ==
    spawnFailed => (pc # "panicked" /\ readAttempts = 0 /\ genStarts = 0)

\* C6: a read error is reported and ends the loop without a panic; the failing
\* read is not counted, the subprocess is still sent the termination signal,
\* the site thread is joined and the summary reports the counter.
C6_ReadErrorAbsorbed ==
    /\ (pc = "match" /\ cur.kind = "err") => packet_count = Len(linesRead)
    /\ errReported =>
          /\ pc \in Exited
          /\ cur.kind = "err"
          /\ packet_count = Len(linesRead)
          /\ readAttempts = Len(linesRead) + 1
          /\ pc \in {"join", "summary", "done"} => killCount = 1
          /\ pc \in {"summary", "done"} => genPc = "done"
          /\ pc = "done" => outcome = packet_count

C6_Witness ==
    /\ errReported /\ pc = "done" /\ outcome = 1 /\ packet_count = 1
    /\ readAttempts = 2 /\ killCount = 1 /\ genPc = "done"

\* C7: the counter equals the number of lines read as Ok, parsed or not, and
\* the summary reports that number.
C7_CountsEveryLine ==
    /\ (pc = "match" /\ cur.kind = "ok") => packet_count + 1 = Len(linesRead)
    /\ ~(pc = "match" /\ cur.kind = "ok") => packet_count = Len(linesRead)
    /\ outcome # -1 => outcome = Len(linesRead)

C7_Witness ==
    /\ outcome # -1 /\ outcome = Len(linesRead)
    /\ Len(emitted) >= 1 /\ Len(emitted) < outcome

\* C8: the site thread probes the catalog entries once each, in order, prints
\* one observation per probe, and ends only after the last entry, whatever the
\* probes' results.
C8_OneProbePerEntry ==
    /\ probes = [i \in 1 .. genIdx |-> i]
    /\ Len(observations) = genIdx
    /\ \A i \in 1 .. Len(observations) :
          /\ observations[i][1] = i
          /\ observations[i][2] \in {"SUCCESS Visited", "ERROR Failed to visit", "ERROR e"}
    /\ genIdx <= NumSites
    /\ genPc = "done" => genIdx = NumSites
    /\ genPc = "none" => genIdx = 0

C8_Witness ==
    /\ genPc = "done" /\ Len(observations) = NumSites /\ probes[NumSites] = NumSites
    /\ observations[1][2] = "ERROR e"
    /\ observations[NumSites][2] = "ERROR Failed to visit"

\* C9: parse_packet returns none on fewer than 6 whitespace-separated tokens
\* and otherwise the 1st, 3rd and 5th token and the tokens from the 6th on
\* joined by single blanks.
TokenStarts(s) ==
    {i \in 1 .. Len(s) : ~IsWhitespace(s[i]) /\ (i = 1 \/ IsWhitespace(s[i - 1]))}

TokenEnds(s) ==
    {i \in 1 .. Len(s) : ~IsWhitespace(s[i]) /\ (i = Len(s) \/ IsWhitespace(s[i + 1]))}

NthOf(S, n) == CHOOSE i \in S : Cardinality({j \in S : j < i}) = n - 1

Token(s, n) == SubSeq(s, NthOf(TokenStarts(s), n), NthOf(TokenEnds(s), n))

NumTokens(s) == Cardinality(TokenStarts(s))

RECURSIVE TokensFrom(_, _)
TokensFrom(s, n) ==
    IF n = NumTokens(s) THEN Token(s, n)
    ELSE Token(s, n) \o <<" ">> \o TokensFrom(s, n + 1)

C9_ParsePacket ==
    parsed =>
        IF NumTokens(pline) < 6 THEN presult = None
        ELSE presult = <<Token(pline, 1), Token(pline, 3), Token(pline, 5),
                         TokensFrom(pline, 6)>>

C9_Witness ==
    /\ parsed /\ presult # None /\ NumTokens(pline) = 7
    /\ TabCount(pline) = 1 /\ Len(pline) = 14
    /\ IsWhitespace(pline[12]) /\ IsWhitespace(pline[13])
    /\ Len(presult[4]) = 3

\* C10: every run_command prints exactly one outcome, fixed by the external
\* result, and the battery goes on to its next command whatever the result;
\* the process is never aborted inside the battery.
C10_RunCommandOutcome ==
    /\ diagOutcomes = diagIdx
    /\ diagIdx > 0 =>
          lastOutcome = CASE lastExt = "Err" -> <<"ERROR", "e">>
                          [] lastExt = "OkNonZero" -> <<"ERROR", "stderr">>
                          [] lastExt = "OkZero" -> <<"SUCCESS", "stdout">>
    /\ pc = "network_test" => diagIdx < NumCommands
    /\ pc # "network_test" => diagIdx = NumCommands

C10_Witness ==
    /\ diagErrSeen /\ diagIdx = NumCommands /\ lastExt = "OkZero"
    /\ lastOutcome = <<"SUCCESS", "stdout">> /\ pc = "spawn"

\* C11: with timeout_secs = 0 the loop is left only after a read attempt, and
\* a line that the stream supplied to that read has been counted:
\* packet_count = 1 when the session stops.
C11_ZeroTimeoutReadsOnce ==
    (timeout_secs = 0 /\ spawnCount = 1) =>
        /\ pc \in Exited => readAttempts = 1
        /\ (pc \in Exited /\ cur.kind = "ok") =>
              /\ packet_count = 1
              /\ linesRead = <<cur.line>>
              /\ stopNotice
        /\ (outcome # -1 /\ cur.kind = "ok") => outcome = 1
        /\ stopNotice => readAttempts = 1

C11_Witness ==
    /\ timeout_secs = 0 /\ pc = "done" /\ outcome = 1 /\ readAttempts = 1
    /\ cur.kind = "ok" /\ stopNotice /\ max_packets = MaxPkts

\* C12: the capture subprocess is not spawned (nor its spawn attempted) and
\* the site thread is not started before all commands of the battery have
\* completed.
C12_BatteryFirst ==
    (spawnCount > 0 \/ spawnFailed \/ genStarts > 0 \/ genPc # "none"
        \/ childState # "none" \/ pc \notin {"network_test", "spawn"}) =>
        /\ diagIdx = NumCommands
        /\ diagOutcomes = NumCommands

C12_Witness ==
    /\ spawnCount = 1 /\ genStarts = 1 /\ genPc = "running" /\ pc = "read"
    /\ diagIdx = NumCommands /\ diagErrSeen /\ lastExt = "OkNonZero"

\* C13: teardown sends the termination signal, then waits for the subprocess
\* to end, then joins the site thread, then prints the summary; the subprocess
\* has been reaped when the summary is printed.
C13_DrainOrder ==
    /\ pc \in {"join", "summary", "done"} => killCount = 1
    /\ pc \in {"summary", "done"} => genPc = "done"
    /\ pc \in {"join", "summary", "done"} => childState = "reaped"
    /\ outcome # -1 => childState = "reaped"

\* C14: a failed child.kill() changes neither the join nor the result: the
\* session goes on to the join, and the summary is printed after the site
\* thread has ended, with the number of lines read.
C14_KillFailureIgnored ==
    (killCount = 1 /\ killResult = "Err") =>
        /\ pc \in {"join", "summary", "done"}
        /\ packet_count = Len(linesRead)
        /\ pc \in {"summary", "done"} => genPc = "done"
        /\ pc = "done" => outcome = packet_count

C14_Witness ==
    /\ killCount = 1 /\ killResult = "Err" /\ pc = "done"
    /\ genPc = "done" /\ outcome = packet_count /\ outcome = Len(linesRead)
    /\ outcome >= 1

\* C15: the site thread is never cancelled: it ends only with the whole
\* catalog probed, the join is passed only then, and a printed summary
\* implies that every entry has been probed.
C15_GeneratorRunsToEnd ==
    /\ genPc = "done" => (genIdx = NumSites /\ Len(probes) = NumSites)
    /\ pc \in {"summary", "done"} =>
          /\ Len(probes) = NumSites
          /\ Len(observations) = NumSites
    /\ outcome # -1 => probes = [i \in 1 .. NumSites |-> i]

C15_Witness ==
    /\ outcome # -1 /\ Len(probes) = NumSites /\ cur.kind = "eof"
    /\ readAttempts = 1 /\ genPc = "done"

\* C16: the site thread is started exactly once, after the subprocess was
\* spawned and before the first read; afterwards neither unit waits for the
\* other: a pending probe can be taken whatever the position of the capture
\* loop, and an available line read whatever the progress of the site thread.
C16_LaunchThenInterleave ==
    /\ genStarts <= 1
    /\ genStarts = 1 => spawnCount = 1
    /\ genStarts = 0 => (readAttempts = 0 /\ genPc = "none")
    /\ pc \in {"read", "match"} \cup Exited => genStarts = 1
    /\ (genPc = "running" /\ genIdx < NumSites) => ENABLED VisitSite
    /\ (pc = "read" /\ pipe # NoItem) => ENABLED ReadLine

C16_Witness ==
    /\ genStarts = 1 /\ genPc = "running" /\ genIdx = 1
    /\ pc = "read" /\ readAttempts = 1 /\ packet_count = 1 /\ pipe # NoItem

\* C17: the rows printed are exactly the parseable lines among the lines
\* processed so far, in arrival order, each once; their number never exceeds
\* the counter.
Processed ==
    IF pc = "match" /\ cur.kind = "ok"
    THEN SubSeq(linesRead, 1, Len(linesRead) - 1)
    ELSE linesRead

Parseable(l) == NumTokens(l) >= 6

RowOf(l) == <<Token(l, 1), Token(l, 3), Token(l, 5), TokensFrom(l, 6)>>

C17_EmittedInOrder ==
    LET sel == SelectSeq(Processed, Parseable) IN
    /\ emitted = [i \in 1 .. Len(sel) |-> RowOf(sel[i])]
    /\ Len(emitted) <= packet_count

C17_Witness ==
    /\ pc = "done" /\ linesRead = <<PacketLine2, PacketLine>>
    /\ Len(emitted) = 2 /\ emitted[1] # emitted[2]
    /\ emitted[2][4] = <<"x", " ", "x", "x">>

\* C18: a step that advances the site thread leaves the capture loop's
\* counter, lines and rows unchanged, and a step that advances the capture
\* loop leaves the site thread's progress unchanged.
GenProgress == <<genIdx, probes, observations>>
LoopProgress == <<packet_count, readAttempts, linesRead, emitted, cur, stopNotice,
                  errReported, outcome>>

C18_NoSharedState ==
    [][/\ (GenProgress' # GenProgress \/ (genPc = "running" /\ genPc' = "done"))
            => (LoopProgress' = LoopProgress /\ pc' = pc)
       /\ LoopProgress' # LoopProgress
            => (GenProgress' = GenProgress /\ genPc' = genPc)]_vars

C18_Witness ==
    /\ genPc = "running" /\ genIdx = 1 /\ Len(observations) = 1
    /\ pc = "match" /\ packet_count = 1 /\ readAttempts = 2 /\ cur.kind = "ok"

\* C19: the counter never exceeds max_packets, nor does the count in the
\* summary; the loop reads on only below max_packets, and after the stop
\* notice there is no further read.
C19_CountBounded ==
    /\ packet_count <= max_packets
    /\ Len(linesRead) <= max_packets
    /\ outcome <= max_packets
    /\ pc = "read" => packet_count < max_packets
    /\ stopNotice =>
          /\ pc \in Exited
          /\ readAttempts = packet_count
          /\ readAttempts <= max_packets

C19_Witness ==
    /\ pc = "done" /\ outcome = max_packets /\ stopNotice
    /\ max_packets < MaxLines /\ timeout_secs > MaxClock

\* C20: when the stream ends before the stop predicate holds, the loop ends
\* without the stop notice and without an error report, the subprocess is
\* sent the termination signal, the site thread is joined, and the summary
\* reports the number of lines read, which is below max_packets.
C20_StreamEnd ==
    cur.kind = "eof" =>
        /\ pc \in Exited
        /\ ~stopNotice /\ ~errReported
        /\ packet_count = Len(linesRead)
        /\ packet_count < max_packets
        /\ readAttempts = packet_count + 1
        /\ pc \in {"join", "summary", "done"} => killCount = 1
        /\ pc \in {"summary", "done"} => genPc = "done"
        /\ pc = "done" => outcome = packet_count

C20_Witness ==
    /\ cur.kind = "eof" /\ pc = "done" /\ outcome = 1 /\ max_packets = 2
    /\ killCount = 1 /\ genPc = "done" /\ ~stopNotice

====
